---- MODULE Spec2Model ----
(***************************************************************************)
(* Model of the twist-and-snap connector generator.                        *)
(*                                                                         *)
(*   twist_snap.py     TwistSnapConnector: properties stored as strings in *)
(*                     a ConfigParser, read back with getfloat / getint    *)
(*                     and per-property fallbacks; twist_snap_connector    *)
(*                     turns the properties into kernel parameters.        *)
(*   ptfe_fittings.py  tapered_tube_path and the taper_cut_* fittings.     *)
(*                                                                         *)
(* Numbers are exact rationals n/d carrying the Python type ("int" or      *)
(* "float") that decides how str() prints them.  The configuration store   *)
(* holds text (sequences of one-character strings); a setter formats with  *)
(* Str and a getter parses with ParseFloat / ParseInt.                     *)
(***************************************************************************)
EXTENDS Integers, Sequences, FiniteSets, TLC

VARIABLES
    connector_diameter, \* TwistSnapConnector.connector_diameter (plain attribute)
    config,             \* TwistSnapConnector.config: the ConfigParser's content
    ctor,               \* history: the constructor's arguments
    everSet,            \* history: <<section, key>> ever given a value (setter, constructor, loaded file)
    written,            \* history: property -> value of its last setter call since the last load_config
    pre,                \* history: property -> what it read before the last operation
    preKeys,            \* history: the <<section, key>> pairs stored before the last operation
    last,               \* history: the last operation and its arguments
    nops,               \* number of operations performed on the object
    ret                 \* what the last operation returned

vars == <<connector_diameter, config, ctor, everSet, written, pre, preKeys, last, nops, ret>>

-----------------------------------------------------------------------------
(* Bounds of the model *)

MaxOps == 3

-----------------------------------------------------------------------------
(* Exact arithmetic on Python numbers *)

Abs(x) == IF x < 0 THEN -x ELSE x

RECURSIVE GCD(_, _)
GCD(a, b) == IF b = 0 THEN a ELSE GCD(b, a % b)

\* the number n/d (d # 0) in lowest terms with a positive denominator
Num(ty, n, d) ==
    LET s == IF d < 0 THEN -1 ELSE 1
        g == GCD(Abs(n), Abs(d))
    IN  [ty |-> ty, n |-> (s * n) \div g, d |-> (s * d) \div g]

Int_(k) == Num("int", k, 1)
Flt(n, d) == Num("float", n, d)

\* an exception raised by a conversion (ValueError)
ValueError == [ty |-> "ValueError", n |-> 0, d |-> 1]
\* Python's None
None == [ty |-> "None", n |-> 0, d |-> 1]

IsNum(x) == x.ty \in {"int", "float"}

\* int op int is an int for + - *; anything with a float is a float
ArithTy(a, b) == IF a.ty = "int" /\ b.ty = "int" THEN "int" ELSE "float"

Add(a, b) == Num(ArithTy(a, b), a.n * b.d + b.n * a.d, a.d * b.d)
Sub(a, b) == Num(ArithTy(a, b), a.n * b.d - b.n * a.d, a.d * b.d)
Mul(a, b) == Num(ArithTy(a, b), a.n * b.n, a.d * b.d)
\* true division always gives a float
Div(a, b) == Num("float", a.n * b.d, a.d * b.n)

\* Python ==, <= on numbers compare values, not types
NumEq(a, b) == IsNum(a) /\ IsNum(b) /\ a.n * b.d = b.n * a.d
Leq(a, b) == a.n * b.d <= b.n * a.d
\* min(a, b): b only when it is strictly smaller
Min(a, b) == IF b.n * a.d < a.n * b.d THEN b ELSE a

-----------------------------------------------------------------------------
(* Text: what str() writes into the store and what float() / int() read back *)

DigitChars == <<"0", "1", "2", "3", "4", "5", "6", "7", "8", "9">>
DigitChar(k) == DigitChars[k + 1]
IsDigit(c) == \E i \in 1..10 : DigitChars[i] = c
DigitVal(c) == (CHOOSE i \in 1..10 : DigitChars[i] = c) - 1

\* the decimal digits of a natural number
RECURSIVE Digits(_)
Digits(k) == IF k < 10 THEN <<DigitChar(k)>> ELSE Append(Digits(k \div 10), DigitChar(k % 10))

\* the natural number written by a sequence of digits (0 for the empty one)
RECURSIVE DigitsVal(_)
DigitsVal(s) ==
    IF s = <<>> THEN 0
    ELSE 10 * DigitsVal(SubSeq(s, 1, Len(s) - 1)) + DigitVal(s[Len(s)])

RECURSIVE Pow10(_)
Pow10(k) == IF k = 0 THEN 1 ELSE 10 * Pow10(k - 1)

\* a str() that goes through int(): the fraction is lost
Str_truncated(x) ==
    (IF x.n < 0 THEN <<"-">> ELSE <<>>) \o Digits(Abs(x.n) \div x.d)

\* str(x): an int prints its digits, a float prints at least one fractional
\* digit ("2.0", "0.1", "2.25").  Defined for the floats with at most two
\* fractional digits, the only ones the model stores.
Str(x) ==
    LET sign == IF x.n < 0 THEN <<"-">> ELSE <<>>
        a == Abs(x.n)
    IN  CASE x.ty = "int" -> sign \o Digits(a)
          [] x.ty = "float" /\ 100 % x.d = 0 ->
                LET h == (a * 100) \div x.d
                    fr == h % 100
                    frac == IF fr % 10 = 0 THEN <<DigitChar(fr \div 10)>>
                            ELSE <<DigitChar(fr \div 10), DigitChar(fr % 10)>>
                IN  sign \o Digits(h \div 100) \o <<".">> \o frac

\* float(s): [sign] digits [. digits] with at least one digit, else ValueError
ParseFloat(s) ==
    LET signed == s # <<>> /\ s[1] \in {"-", "+"}
        body == IF signed THEN Tail(s) ELSE s
        neg == signed /\ s[1] = "-"
        dots == {i \in 1..Len(body) : body[i] = "."}
        dot == IF dots = {} THEN Len(body) + 1 ELSE CHOOSE i \in dots : TRUE
        ip == SubSeq(body, 1, dot - 1)
        fp == SubSeq(body, dot + 1, Len(body))
        ok == /\ Cardinality(dots) <= 1
              /\ Len(ip) + Len(fp) >= 1
              /\ \A i \in 1..Len(ip) : IsDigit(ip[i])
              /\ \A i \in 1..Len(fp) : IsDigit(fp[i])
        mag == DigitsVal(ip) * Pow10(Len(fp)) + DigitsVal(fp)
    IN  IF ok THEN Flt(IF neg THEN -mag ELSE mag, Pow10(Len(fp))) ELSE ValueError

\* int(s): [sign] digits, else ValueError ("4.0" is not an int literal)
ParseInt(s) ==
    LET signed == s # <<>> /\ s[1] \in {"-", "+"}
        body == IF signed THEN Tail(s) ELSE s
        neg == signed /\ s[1] = "-"
        ok == Len(body) >= 1 /\ \A i \in 1..Len(body) : IsDigit(body[i])
    IN  IF ok THEN Int_(IF neg THEN -DigitsVal(body) ELSE DigitsVal(body)) ELSE ValueError

-----------------------------------------------------------------------------
(* ConfigParser: sections of key -> text, and the [DEFAULT] section that    *)
(* supplies a value to every existing section that lacks the key            *)

EmptyMap == [k \in {} |-> <<>>]

\* a map with key k set to v
Put(m, k, v) == [x \in DOMAIN m \cup {k} |-> IF x = k THEN v ELSE m[x]]
\* m updated with every entry of u
Merge(m, u) == [x \in DOMAIN m \cup DOMAIN u |-> IF x \in DOMAIN u THEN u[x] ELSE m[x]]

\* a configuration is [defaults |-> key -> text, sections |-> section -> key -> text]
NewConfig == [defaults |-> EmptyMap, sections |-> EmptyMap]

\* ConfigParser.has_option
has_option(c, section, key) ==
    /\ section \in DOMAIN c.sections
    /\ key \in DOMAIN c.sections[section] \cup DOMAIN c.defaults

\* ConfigParser.get without fallback, for an option that exists: the
\* section's own entry hides the [DEFAULT] one
get(c, section, key) ==
    IF key \in DOMAIN c.sections[section] THEN c.sections[section][key]
    ELSE c.defaults[key]

\* getfloat / getint with fallback=: a missing section or option yields the
\* fallback untouched, a present option is converted (and may raise)
getfloat(c, section, key, fallback) ==
    IF has_option(c, section, key) THEN ParseFloat(get(c, section, key)) ELSE fallback

getint(c, section, key, fallback) ==
    IF has_option(c, section, key) THEN ParseInt(get(c, section, key)) ELSE fallback

\* the setters' common body: add the section when missing, then store str(value)
set(c, section, key, value) ==
    LET secs == IF section \in DOMAIN c.sections THEN c.sections
                ELSE Put(c.sections, section, EmptyMap)
    IN  [c EXCEPT !.sections = Put(secs, section, Put(secs[section], key, Str(value)))]

\* a read that replaces each section the file names instead of updating it
read_replacing(c, f) ==
    [defaults |-> Merge(c.defaults, f.defaults),
     sections |-> [s \in DOMAIN c.sections \cup DOMAIN f.sections |->
                     IF s \in DOMAIN f.sections THEN f.sections[s] ELSE c.sections[s]]]

\* ConfigParser.read of one parsed file: [DEFAULT] entries go to the defaults,
\* every other section is created when missing and its entries overwritten
read(c, f) ==
    [defaults |-> Merge(c.defaults, f.defaults),
     sections |-> [s \in DOMAIN c.sections \cup DOMAIN f.sections |->
                     Merge(IF s \in DOMAIN c.sections THEN c.sections[s] ELSE EmptyMap,
                           IF s \in DOMAIN f.sections THEN f.sections[s] ELSE EmptyMap)]]

-----------------------------------------------------------------------------
(* TwistSnapConnector: the property getters *)

wall_depth(c) == getfloat(c, "general", "wall_depth", Int_(2))
wall_width(c) == getfloat(c, "general", "wall_width", Int_(2))
tolerance(c) == getfloat(c, "general", "tolerance", Flt(1, 10))
grip_diameter(c) == getfloat(c, "grip", "diameter", Int_(6))
\* the default as a fraction of the circle instead of a percentage
arc_percentage_fraction(c) == getfloat(c, "snapfit", "arc_percentage", Flt(1, 10))

arc_percentage(c) == getfloat(c, "snapfit", "arc_percentage", Int_(10))
snapfit_count(c) == getint(c, "snapfit", "count", Int_(4))

\* the default taken from the other wall dimension
snapfit_radius_extension_of_depth(c) ==
    IF ~IsNum(wall_depth(c)) THEN ValueError
    ELSE getfloat(c, "snapfit", "radius_extension", Div(Mul(wall_depth(c), Int_(2)), Int_(3)))

snapfit_height_of_width(c) ==
    IF ~IsNum(wall_width(c)) THEN ValueError
    ELSE getfloat(c, "snapfit", "height", wall_width(c))

\* the fallback expression is evaluated before getfloat is called, so a
\* wall_width that cannot be read raises here as well
snapfit_radius_extension(c) ==
    IF ~IsNum(wall_width(c)) THEN ValueError
    ELSE getfloat(c, "snapfit", "radius_extension", Div(Mul(wall_width(c), Int_(2)), Int_(3)))

snapfit_height(c) ==
    IF ~IsNum(wall_depth(c)) THEN ValueError
    ELSE getfloat(c, "snapfit", "height", wall_depth(c))

(* the property setters *)

set_snapfit_radius_extension(c, value) == set(c, "snapfit", "radius_extension", value)
set_snapfit_height(c, value) == set(c, "snapfit", "height", value)
set_arc_percentage(c, value) == set(c, "snapfit", "arc_percentage", value)
set_snapfit_count(c, value) == set(c, "snapfit", "count", value)
set_grip_diameter(c, value) == set(c, "grip", "diameter", value)
set_wall_depth(c, value) == set(c, "general", "wall_depth", value)
\* the wall_width setter storing under the wall_depth key
set_wall_width_as_depth(c, value) == set(c, "general", "wall_depth", value)

set_wall_width(c, value) == set(c, "general", "wall_width", value)
set_tolerance(c, value) == set(c, "general", "tolerance", value)

\* the properties, by name
FloatProps == {"snapfit_radius_extension", "snapfit_height", "arc_percentage",
               "grip_diameter", "wall_depth", "wall_width", "tolerance"}
Props == FloatProps \cup {"snapfit_count"}

\* where each property is stored: <<section, key>>
KeyOf(p) ==
    CASE p = "snapfit_radius_extension" -> <<"snapfit", "radius_extension">>
      [] p = "snapfit_height" -> <<"snapfit", "height">>
      [] p = "arc_percentage" -> <<"snapfit", "arc_percentage">>
      [] p = "snapfit_count" -> <<"snapfit", "count">>
      [] p = "grip_diameter" -> <<"grip", "diameter">>
      [] p = "wall_depth" -> <<"general", "wall_depth">>
      [] p = "wall_width" -> <<"general", "wall_width">>
      [] p = "tolerance" -> <<"general", "tolerance">>

\* a read of property p
Get(c, p) ==
    CASE p = "snapfit_radius_extension" -> snapfit_radius_extension(c)
      [] p = "snapfit_height" -> snapfit_height(c)
      [] p = "arc_percentage" -> arc_percentage(c)
      [] p = "snapfit_count" -> snapfit_count(c)
      [] p = "grip_diameter" -> grip_diameter(c)
      [] p = "wall_depth" -> wall_depth(c)
      [] p = "wall_width" -> wall_width(c)
      [] p = "tolerance" -> tolerance(c)

\* the assignment  p = value
Assign(c, p, value) ==
    CASE p = "snapfit_radius_extension" -> set_snapfit_radius_extension(c, value)
      [] p = "snapfit_height" -> set_snapfit_height(c, value)
      [] p = "arc_percentage" -> set_arc_percentage(c, value)
      [] p = "snapfit_count" -> set_snapfit_count(c, value)
      [] p = "grip_diameter" -> set_grip_diameter(c, value)
      [] p = "wall_depth" -> set_wall_depth(c, value)
      [] p = "wall_width" -> set_wall_width(c, value)
      [] p = "tolerance" -> set_tolerance(c, value)

\* every property as it reads now
Reads(c) == [p \in Props |-> Get(c, p)]

\* __init__(connector_diameter, wall_size, tolerance): four setter calls on a
\* fresh ConfigParser
Construct(d, w, t) ==
    set_tolerance(
        set_wall_width(
            set_wall_depth(
                set_grip_diameter(NewConfig, Add(d, Mul(w, Int_(2)))),
                w),
            w),
        t)

\* a fillet that ignores the kernel's maximum, as the socket's fillets do
FilletRadius_unclamped(sre, max_fillet) == Div(sre, Int_(8))

\* the fillet radius of the connector tab
FilletRadius(sre, max_fillet) == Min(Div(sre, Int_(8)), max_fillet)

\* the window widened by 1.1, as the socket's entry slot is
TrimWindow_wide(arc) ==
    <<Mul(Div(arc, Int_(-200)), Flt(11, 10)), Mul(Div(arc, Int_(200)), Flt(11, 10))>>

\* the parameter window the connector tab's sweep path is trimmed to
TrimWindow(arc) == <<Div(arc, Int_(-200)), Div(arc, Int_(200))>>

\* twist_snap_connector: the parameters handed to the kernel for the base
\* cylinder, the trimmed sweep path, the tab profile, the relief cut, the
\* fillet and the polar array.  max_fillet is what the kernel's max_fillet
\* reports for the tab's edges.  A property that cannot be read raises.
twist_snap_connector(c, diameter, max_fillet) ==
    LET sre == snapfit_radius_extension(c)
        sh == snapfit_height(c)
        arc == arc_percentage(c)
    IN  IF \E p \in Props : ~IsNum(Get(c, p)) THEN [kind |-> "ValueError"]
        ELSE [kind |-> "twist_snap_connector",
              base_radius |-> diameter,
              base_height |-> Mul(wall_depth(c), Int_(2)),
              trim_start |-> TrimWindow(arc)[1],
              trim_end |-> TrimWindow(arc)[2],
              polygon |-> << <<Int_(0), Int_(0)>>,
                             <<sre, Int_(0)>>,
                             <<sre, sh>>,
                             <<Int_(0), Div(sh, Int_(2))>> >>,
              cut_radius |-> Div(sre, Int_(2)),
              cut_height |-> Mul(sh, Int_(3)),
              max_fillet |-> max_fillet,
              fillet_radius |-> FilletRadius(sre, max_fillet),
              count |-> snapfit_count(c)]

-----------------------------------------------------------------------------
(* Inputs *)

\* constructor calls: no arguments, the repository's own TwistSnapConnector(4.5,2),
\* and one with every argument given
DefaultArgs == [connector_diameter |-> Int_(10), wall_size |-> Int_(2), tolerance |-> Flt(1, 10)]

CtorArgs ==
    { DefaultArgs,
      [connector_diameter |-> Flt(9, 2), wall_size |-> Int_(2), tolerance |-> Flt(1, 10)],
      [connector_diameter |-> Int_(8), wall_size |-> Flt(3, 2), tolerance |-> Flt(1, 5)] }

\* values assigned to the float properties (an int and a float)
FloatVals == {Int_(3), Flt(5, 2)}
\* values assigned to snapfit_count (an int, and the same kind of number as a float)
CountVals == {Int_(3), Flt(4, 1)}
\* what the kernel may report as the largest possible fillet
MaxFillets == {Flt(1, 10), Flt(1, 2)}

\* configuration files, by name; a file that does not exist reads as nothing
FileNames == {"missing.ini", "walls.ini", "snapfit.ini", "defaults.ini"}

File(name) ==
    CASE name = "missing.ini" -> [defaults |-> EmptyMap, sections |-> EmptyMap]
      [] name = "walls.ini" ->
            [defaults |-> EmptyMap,
             sections |-> "general" :> ("wall_width" :> <<"5">> @@ "wall_depth" :> <<"4", ".", "5">>)]
      [] name = "snapfit.ini" ->
            [defaults |-> EmptyMap,
             sections |-> "snapfit" :> ("arc_percentage" :> <<"1", "2", ".", "5">>
                                        @@ "count" :> <<"6">>
                                        @@ "height" :> <<"1", ".", "5">>)]
      [] name = "defaults.ini" ->
            [defaults |-> ("radius_extension" :> <<"1", ".", "2", "5">>
                           @@ "arc_percentage" :> <<"2", "0">>),
             sections |-> "grip" :> ("diameter" :> <<"8">>)]

\* the <<section, key>> pairs a file gives a value to; a [DEFAULT] entry
\* gives one to that key of every section
Sections == {"snapfit", "grip", "general"}
FileOwnKeys(f) == UNION {{<<s, k>> : k \in DOMAIN f.sections[s]} : s \in DOMAIN f.sections}
FileKeys(f) == {<<s, k>> : s \in Sections, k \in DOMAIN f.defaults} \cup FileOwnKeys(f)

-----------------------------------------------------------------------------
(* The object's life: construction, then setter calls, load_config calls   *)
(* and builds in any order                                                 *)

NoReads == [p \in Props |-> None]
\* the <<section, key>> pairs the sections themselves hold
StoredKeys(c) == UNION {{<<s, k>> : k \in DOMAIN c.sections[s]} : s \in DOMAIN c.sections}
NoneRet == [kind |-> "None"]
Op(op, prop, val, file) == [op |-> op, prop |-> prop, val |-> val, file |-> file]

Init ==
    \E a \in CtorArgs :
        /\ connector_diameter = a.connector_diameter
        /\ config = Construct(a.connector_diameter, a.wall_size, a.tolerance)
        /\ ctor = a
        /\ everSet = {KeyOf(p) : p \in {"grip_diameter", "wall_depth", "wall_width", "tolerance"}}
        /\ written = [p \in Props |->
                        CASE p = "grip_diameter" -> Add(a.connector_diameter, Mul(a.wall_size, Int_(2)))
                          [] p \in {"wall_depth", "wall_width"} -> a.wall_size
                          [] p = "tolerance" -> a.tolerance
                          [] OTHER -> None]
        /\ pre = NoReads
        /\ preKeys = {}
        /\ last = Op("__init__", "", None, "")
        /\ nops = 0
        /\ ret = NoneRet

\* the assignment  p = v  on the object
Setter(p, v) ==
    /\ nops < MaxOps
    /\ config' = Assign(config, p, v)
    /\ everSet' = everSet \cup {KeyOf(p)}
    /\ written' = [written EXCEPT ![p] = v]
    /\ pre' = Reads(config)
    /\ preKeys' = StoredKeys(config)
    /\ last' = Op("set", p, v, "")
    /\ nops' = nops + 1
    /\ ret' = NoneRet
    /\ UNCHANGED <<connector_diameter, ctor>>

SetSnapfitRadiusExtension == \E v \in FloatVals : Setter("snapfit_radius_extension", v)
SetSnapfitHeight == \E v \in FloatVals : Setter("snapfit_height", v)
SetArcPercentage == \E v \in FloatVals : Setter("arc_percentage", v)
SetSnapfitCount == \E v \in CountVals : Setter("snapfit_count", v)
SetGripDiameter == \E v \in FloatVals : Setter("grip_diameter", v)
SetWallDepth == \E v \in FloatVals : Setter("wall_depth", v)
SetWallWidth == \E v \in FloatVals : Setter("wall_width", v)
SetTolerance == \E v \in FloatVals : Setter("tolerance", v)

\* load_config(config_file)
LoadConfig ==
    \E name \in FileNames :
        /\ nops < MaxOps
        /\ config' = read(config, File(name))
        /\ everSet' = everSet \cup FileKeys(File(name))
        /\ written' = NoReads
        /\ pre' = Reads(config)
        /\ preKeys' = StoredKeys(config)
        /\ last' = Op("load_config", "", None, name)
        /\ nops' = nops + 1
        /\ ret' = NoneRet
        /\ UNCHANGED <<connector_diameter, ctor>>

\* a read of the twist_snap_connector property
BuildConnector ==
    \E m \in MaxFillets :
        /\ nops < MaxOps
        /\ ret' = twist_snap_connector(config, connector_diameter, m)
        /\ pre' = Reads(config)
        /\ preKeys' = StoredKeys(config)
        /\ last' = Op("twist_snap_connector", "", None, "")
        /\ nops' = nops + 1
        /\ UNCHANGED <<connector_diameter, config, ctor, everSet, written>>

Next ==
    \/ SetSnapfitRadiusExtension
    \/ SetSnapfitHeight
    \/ SetArcPercentage
    \/ SetSnapfitCount
    \/ SetGripDiameter
    \/ SetWallDepth
    \/ SetWallWidth
    \/ SetTolerance
    \/ LoadConfig
    \/ BuildConnector

Spec == Init /\ [][Next]_vars

-----------------------------------------------------------------------------
(* ptfe_fittings.py: the fittings built around the joint *)

\* twist_snap_socket: the parameters handed to the kernel
twist_snap_socket(c, diameter) ==
    LET sre == snapfit_radius_extension(c)
        sh == snapfit_height(c)
        arc == arc_percentage(c)
        tol == tolerance(c)
        wide == Flt(11, 10)
        long == Flt(31, 10)
    IN  IF \E p \in Props : ~IsNum(Get(c, p)) THEN [kind |-> "ValueError"]
        ELSE [kind |-> "twist_snap_socket",
              outer_radius |-> Add(diameter, Div(Mul(wall_width(c), Int_(4)), Int_(3))),
              inner_radius |-> Add(diameter, tol),
              height |-> Mul(wall_depth(c), Int_(2)),
              entry_trim |-> <<Mul(Div(arc, Int_(-200)), wide), Mul(Div(arc, Int_(200)), wide)>>,
              entry_polygon |-> << <<Int_(0), Int_(0)>>,
                                   <<sre, Int_(0)>>,
                                   <<sre, Mul(sh, Int_(2))>>,
                                   <<Int_(0), Mul(sh, Int_(2))>> >>,
              twist_trim |-> <<Mul(Div(arc, Int_(-200)), long), Mul(Div(arc, Int_(200)), wide)>>,
              twist_polygon |-> << <<Int_(0), Int_(0)>>,
                                   <<Add(sre, tol), Int_(0)>>,
                                   <<Add(sre, tol), Add(sh, tol)>>,
                                   <<Int_(0), Add(Div(sh, Int_(2)), tol)>> >>,
              fillet_radius |-> Div(sre, Int_(8)),
              count |-> snapfit_count(c),
              stop_ring_radius |-> Add(Add(diameter, sre), Mul(tol, Int_(2))),
              stop_start_angle |-> Mul(arc, Int_(-4)),
              stop_radius |-> Div(sre, Int_(2)),
              stop_height |-> Mul(sh, Int_(2))]

\* the grip both fittings share: a hexagon lofted to a circle knob_length above it
Knob(knob_length) ==
    [hex_radius |-> Int_(7), side_count |-> Int_(6), rotation |-> Int_(20),
     hex_fillet |-> Int_(1), top_z |-> knob_length,
     top_radius |-> Add(Flt(9, 2), Div(Mul(Int_(4), Int_(2)), Int_(3)))]

\* TwistSnapConnector(4.5,2), as both fittings construct it
FittingJoint == Construct(Flt(9, 2), Int_(2), Flt(1, 10))

connector_fitting(knob_length, max_fillet) ==
    [knob |-> Knob(knob_length),
     joint_offset |-> <<Int_(0), Int_(0), Int_(4)>>,
     joint |-> twist_snap_connector(FittingJoint, Flt(9, 2), max_fillet)]

socket_fitting(knob_length) ==
    [knob |-> Knob(knob_length),
     joint |-> twist_snap_socket(FittingJoint, Flt(9, 2))]

\* the straight section made `length` high, the taper added on top of it
tapered_tube_path_full_height(external_radius, taper_start_radius, taper_end_radius, taper_length, length) ==
    [kind |-> "tapered_tube_path",
     straight_radius |-> external_radius,
     straight_height |-> length,
     taper_start_z |-> length,
     taper_start_radius |-> taper_start_radius,
     taper_end_z |-> Add(length, taper_length),
     taper_end_radius |-> taper_end_radius]

\* tapered_tube_path: a cylinder standing on z = 0, and a loft from a circle on
\* the cylinder's top face to a circle taper_length above that face
tapered_tube_path(external_radius, taper_start_radius, taper_end_radius, taper_length, length) ==
    LET top == Sub(length, taper_length)
    IN  [kind |-> "tapered_tube_path",
         straight_radius |-> external_radius,
         straight_height |-> Sub(length, taper_length),
         taper_start_z |-> top,
         taper_start_radius |-> taper_start_radius,
         taper_end_z |-> Add(top, taper_length),
         taper_end_radius |-> taper_end_radius]

\* ThreadedConnector(): the defaults of the dataclass, and the one
\* taper_cut_connector_fitting defaults to
ThreadedConnector == [diameter |-> Int_(10), length |-> Flt(67, 10),
                      thread_pitch |-> Int_(1), thread_angle |-> Int_(30)]
ConnectorThreadedConnector == [ThreadedConnector EXCEPT !.diameter = Flt(101, 10),
                                                        !.thread_pitch = Flt(874, 1000)]

\* the socket for the threaded connector and the thread cut into it
ThreadParts(tc) ==
    [socket_radius |-> Div(tc.diameter, Int_(2)), socket_height |-> tc.length,
     diameter |-> tc.diameter, pitch |-> tc.thread_pitch, length |-> tc.length,
     thread_angle |-> tc.thread_angle, external |-> FALSE, hand |-> "right"]

taper_cut_socket_fitting(a) ==
    [kind |-> "taper_cut_socket_fitting",
     body |-> socket_fitting(a.knob_length),
     tube_cut |-> tapered_tube_path(Div(a.tube_outer_diameter, Int_(2)),
                                    Div(a.tube_inner_diameter, Int_(2)),
                                    Div(a.taper_end_diameter, Int_(2)),
                                    a.taper_length,
                                    Add(a.knob_length, Int_(2))),
     thread |-> ThreadParts(a.threaded_connector)]

taper_cut_connector_fitting(a, max_fillet) ==
    [kind |-> "taper_cut_connector_fitting",
     body |-> connector_fitting(a.knob_length, max_fillet),
     tube_cut |-> tapered_tube_path(Div(a.tube_outer_diameter, Int_(2)),
                                    Div(a.tube_inner_diameter, Int_(2)),
                                    Div(a.taper_end_diameter, Int_(2)),
                                    a.taper_length,
                                    Add(a.knob_length, Int_(4))),
     thread |-> ThreadParts(a.threaded_connector)]

\* arguments of the fitting calls: the defaults of the signatures, the
\* repository's own taper_end_diameter=2.2, and other sizes
FittingArgs ==
    [knob_length : {Int_(15), Int_(10)},
     tube_outer_diameter : {Flt(64, 10), Flt(43, 10)},
     tube_inner_diameter : {Flt(34, 10), Int_(2)},
     taper_end_diameter : {Flt(27, 10), Flt(22, 10)},
     taper_length : {Int_(4), Flt(5, 2)},
     threaded_connector : {ThreadedConnector, ConnectorThreadedConnector}]

InitFit ==
    /\ connector_diameter = Flt(9, 2)
    /\ config = FittingJoint
    /\ ctor = [connector_diameter |-> Flt(9, 2), wall_size |-> Int_(2), tolerance |-> Flt(1, 10)]
    /\ everSet = {}
    /\ written = NoReads
    /\ pre = NoReads
    /\ preKeys = {}
    /\ last = Op("import", "", None, "")
    /\ nops = 0
    /\ ret = NoneRet

TaperCutSocketFitting ==
    \E a \in FittingArgs :
        /\ ret' = taper_cut_socket_fitting(a)
        /\ last' = Op("taper_cut_socket_fitting", "", a, "")
        /\ UNCHANGED <<connector_diameter, config, ctor, everSet, written, pre, preKeys, nops>>

TaperCutConnectorFitting ==
    \E a \in FittingArgs, m \in MaxFillets :
        /\ ret' = taper_cut_connector_fitting(a, m)
        /\ last' = Op("taper_cut_connector_fitting", "", a, "")
        /\ UNCHANGED <<connector_diameter, config, ctor, everSet, written, pre, preKeys, nops>>

NextFit ==
    \/ TaperCutSocketFitting
    \/ TaperCutConnectorFitting

SpecFit == InitFit /\ [][NextFit]_vars

-----------------------------------------------------------------------------
(* Properties *)

\* two reads agree: the same number, or the same exception
SameRead(a, b) == a = b \/ NumEq(a, b)

HasOwnEntry(c, p) ==
    /\ KeyOf(p)[1] \in DOMAIN c.sections
    /\ KeyOf(p)[2] \in DOMAIN c.sections[KeyOf(p)[1]]

\* C1: after  p = v  on a float-valued property, a read of p returns v, and
\* goes on returning v through writes to the other properties, until p is
\* written again or load_config is called.
C1_SetThenGet ==
    \A p \in FloatProps : written[p] # None => NumEq(Get(config, p), written[p])

\* C1 witness: a property was assigned, then wall_width (on which a default
\* depends) was assigned another value
C1_Witness ==
    /\ last.op = "set" /\ last.prop = "wall_width"
    /\ ~NumEq(pre["wall_width"], Get(config, "wall_width"))
    /\ written["snapfit_radius_extension"] # None
    /\ written["snapfit_height"] # None

\* the numbers the configuration files are meant to carry
FileNumbers(name) ==
    CASE name = "missing.ini" -> EmptyMap
      [] name = "walls.ini" -> <<"general", "wall_width">> :> Int_(5)
                               @@ <<"general", "wall_depth">> :> Flt(9, 2)
      [] name = "snapfit.ini" -> <<"snapfit", "arc_percentage">> :> Flt(25, 2)
                                 @@ <<"snapfit", "count">> :> Int_(6)
                                 @@ <<"snapfit", "height">> :> Flt(3, 2)
      [] name = "defaults.ini" -> <<"grip", "diameter">> :> Int_(8)

\* a setter was the last operation and its value is what the property reads
\* (snapfit_count assigned a float is stored as "4.0", which getint rejects)
LastWriteWins ==
    last.op = "set" =>
        \/ NumEq(Get(config, last.prop), last.val)
        \/ /\ last.prop = "snapfit_count" /\ last.val.ty = "float"
           /\ Get(config, last.prop) = ValueError

\* after load_config(f) a property whose key f holds in the property's own
\* section reads as the number in f
LoadedKeysRead ==
    last.op = "load_config" =>
        \A p \in Props :
            KeyOf(p) \in DOMAIN FileNumbers(last.file) =>
                NumEq(Get(config, p), FileNumbers(last.file)[KeyOf(p)])

C3_WallSize ==
    /\ nops = 0 =>
          /\ NumEq(Get(config, "wall_width"), ctor.wall_size)
          /\ NumEq(Get(config, "wall_depth"), ctor.wall_size)
    /\ last.op = "set" /\ last.prop = "wall_width" =>
          SameRead(Get(config, "wall_depth"), pre["wall_depth"])
    /\ last.op = "set" /\ last.prop = "wall_depth" =>
          SameRead(Get(config, "wall_width"), pre["wall_width"])

\* C3 witness: wall_width was written with a new value and the two wall
\* dimensions now differ
C3_Witness ==
    /\ last.op = "set" /\ last.prop = "wall_width"
    /\ ~NumEq(Get(config, "wall_width"), pre["wall_width"])
    /\ ~NumEq(Get(config, "wall_width"), Get(config, "wall_depth"))
    /\ NumEq(Get(config, "wall_depth"), ctor.wall_size)

\* C4: while snapfit/radius_extension has never been given a value,
\* snapfit_radius_extension reads as the current wall_width * 2 / 3; once it
\* is stored by its setter, a write to wall_width does not change it.
C4_RadiusExtensionDefault ==
    /\ <<"snapfit", "radius_extension">> \notin everSet =>
          NumEq(Get(config, "snapfit_radius_extension"),
                Div(Mul(Get(config, "wall_width"), Int_(2)), Int_(3)))
    /\ last.op = "set" /\ last.prop = "wall_width" /\ written["snapfit_radius_extension"] # None =>
          NumEq(Get(config, "snapfit_radius_extension"), pre["snapfit_radius_extension"])

\* C4 witness: the default followed a change of wall_width
C4_Witness ==
    /\ <<"snapfit", "radius_extension">> \notin everSet
    /\ "snapfit" \in DOMAIN config.sections
    /\ nops >= 2
    /\ ~NumEq(Get(config, "wall_width"), pre["wall_width"])
    /\ ~NumEq(Get(config, "snapfit_radius_extension"), pre["snapfit_radius_extension"])

\* C5: while snapfit/height has never been given a value, snapfit_height
\* reads as the current wall_depth; once it is stored by its setter, a write
\* to wall_depth does not change it.
C5_HeightDefault ==
    /\ <<"snapfit", "height">> \notin everSet =>
          NumEq(Get(config, "snapfit_height"), Get(config, "wall_depth"))
    /\ last.op = "set" /\ last.prop = "wall_depth" /\ written["snapfit_height"] # None =>
          NumEq(Get(config, "snapfit_height"), pre["snapfit_height"])

\* C5 witness: the default followed a change of wall_depth while wall_width
\* stayed different from it
C5_Witness ==
    /\ <<"snapfit", "height">> \notin everSet
    /\ "snapfit" \in DOMAIN config.sections
    /\ ~NumEq(Get(config, "wall_depth"), pre["wall_depth"])
    /\ ~NumEq(Get(config, "wall_depth"), Get(config, "wall_width"))
    /\ ~NumEq(Get(config, "snapfit_height"), pre["snapfit_height"])

\* C6: while arc_percentage was never set it reads 10 and while snapfit_count
\* was never set it reads 4, whatever the constructor arguments and the other
\* writes; the constructor without arguments gives tolerance 0.1, wall_width
\* 2 and wall_depth 2.
C6_FixedDefaults ==
    /\ <<"snapfit", "arc_percentage">> \notin everSet =>
          NumEq(Get(config, "arc_percentage"), Int_(10))
    /\ <<"snapfit", "count">> \notin everSet =>
          NumEq(Get(config, "snapfit_count"), Int_(4))
    /\ nops = 0 /\ ctor = DefaultArgs =>
          /\ NumEq(Get(config, "tolerance"), Flt(1, 10))
          /\ NumEq(Get(config, "wall_width"), Int_(2))
          /\ NumEq(Get(config, "wall_depth"), Int_(2))

\* C6 witness: other arguments were given, other snapfit properties were set
\* and a file was loaded, and the two keys are still unset
C6_Witness ==
    /\ <<"snapfit", "arc_percentage">> \notin everSet
    /\ <<"snapfit", "count">> \notin everSet
    /\ ctor # DefaultArgs
    /\ HasOwnEntry(config, "snapfit_height")
    /\ last.op = "load_config" /\ last.file = "walls.ini"

\* C7: the sweep path of a connector tab is the circle trimmed to a window of
\* length arc_percentage / 100 centred on parameter 0, that is from
\* -arc_percentage / 200 to +arc_percentage / 200.
C7_TrimWindow ==
    ret.kind = "twist_snap_connector" =>
        LET a == Get(config, "arc_percentage")
        IN  /\ NumEq(Sub(ret.trim_end, ret.trim_start), Div(a, Int_(100)))
            /\ NumEq(Add(ret.trim_start, ret.trim_end), Int_(0))

\* C7 witness: a connector was built with an arc_percentage other than the default
C7_Witness ==
    /\ ret.kind = "twist_snap_connector"
    /\ NumEq(Get(config, "arc_percentage"), Flt(25, 2))
    /\ NumEq(ret.trim_end, Flt(1, 16))

\* C9: the fillet radius of the connector tab is min(snapfit_radius_extension / 8, m)
\* with m the kernel's maximum fillet radius: it exceeds neither.
C9_FilletClamp ==
    ret.kind = "twist_snap_connector" =>
        LET r == Div(Get(config, "snapfit_radius_extension"), Int_(8))
        IN  /\ Leq(ret.fillet_radius, ret.max_fillet)
            /\ Leq(ret.fillet_radius, r)
            /\ NumEq(ret.fillet_radius, ret.max_fillet) \/ NumEq(ret.fillet_radius, r)

\* C9 witness: the kernel's maximum is the smaller one, so the clamp acts
C9_Witness ==
    /\ ret.kind = "twist_snap_connector"
    /\ ~Leq(Div(Get(config, "snapfit_radius_extension"), Int_(8)), ret.max_fillet)
    /\ NumEq(ret.fillet_radius, ret.max_fillet)

\* C8: tapered_tube_path cuts a path of overall length `length`: a straight
\* section of radius external_radius and height length - taper_length, then a
\* taper of height taper_length from taper_start_radius to taper_end_radius;
\* the taper_cut fittings pass half of each diameter, and knob_length + 2
\* (socket) or knob_length + 4 (connector) as the length.
C8_TaperedTubePath ==
    ret.kind \in {"taper_cut_socket_fitting", "taper_cut_connector_fitting"} =>
        LET a == last.val
            t == ret.tube_cut
            length == Add(a.knob_length,
                          IF ret.kind = "taper_cut_socket_fitting" THEN Int_(2) ELSE Int_(4))
        IN  /\ NumEq(t.taper_end_z, length)
            /\ NumEq(t.straight_height, Sub(length, a.taper_length))
            /\ NumEq(t.taper_start_z, t.straight_height)
            /\ NumEq(Sub(t.taper_end_z, t.taper_start_z), a.taper_length)
            /\ NumEq(Mul(t.straight_radius, Int_(2)), a.tube_outer_diameter)
            /\ NumEq(Mul(t.taper_start_radius, Int_(2)), a.tube_inner_diameter)
            /\ NumEq(Mul(t.taper_end_radius, Int_(2)), a.taper_end_diameter)

\* C8 witness: a connector fitting was cut with sizes other than the defaults
C8_Witness ==
    /\ ret.kind = "taper_cut_connector_fitting"
    /\ last.val.knob_length = Int_(10)
    /\ last.val.taper_length = Flt(5, 2)
    /\ NumEq(ret.tube_cut.straight_height, Flt(23, 2))
    /\ NumEq(ret.tube_cut.taper_end_z, Int_(14))

====
